---------------------------- MODULE Spec2Model ----------------------------
(***************************************************************************)
(* Merkle tree builder and range verifier (merkle::Tree).                  *)
(*                                                                         *)
(* Scaling.  The tree shape only depends on the ratios between the node    *)
(* size, the digest length and the machine word, so the model keeps the    *)
(* code's arithmetic and scales the three constants down:                  *)
(*     kNodeSize 8192 -> 4,  Digest::kLength 32 -> 2,  2^64 -> 2^6.        *)
(* A hash is collision free: the digest of an absorbed byte string is the  *)
(* byte string itself, tagged; byte k of a digest is <<"h", input, k>>.    *)
(* Every byte of every buffer is a triple <<kind, Seq(byte), Nat>> so that *)
(* any two bytes can be compared.                                          *)
(***************************************************************************)
EXTENDS Integers, Sequences, FiniteSets, TLC

\* ------------------------------------------------------------------ bounds
\* Longest blob fed to the builder / verifier.  9 bytes make a three-level
\* tree (3 data nodes, 2 nodes of digests, 1 top node).
MaxDataLen == 9

\* ------------------------------------------------------- program constants
kNodeSize == 4
kLength == 2
SizeMod == 64
kDigestsPerNode == kNodeSize \div kLength

NO_ERROR == "NO_ERROR"
ERR_INVALID_ARGS == "ERR_INVALID_ARGS"
ERR_OUT_OF_RANGE == "ERR_OUT_OF_RANGE"
ERR_BUFFER_TOO_SMALL == "ERR_BUFFER_TOO_SMALL"
ERR_BAD_STATE == "ERR_BAD_STATE"
ERR_NO_MEMORY == "ERR_NO_MEMORY"
ERR_IO_DATA_INTEGRITY == "ERR_IO_DATA_INTEGRITY"
\* A failed MX_DEBUG_ASSERT (debug builds only) and a null dereference.
PANIC == "PANIC"
FAULT == "FAULT"

\* ------------------------------------------------------- size_t arithmetic
Min(a, b) == IF a < b THEN a ELSE b
Add(a, b) == (a + b) % SizeMod
Sub(a, b) == (a - b + SizeMod) % SizeMod
Mul(a, b) == (a * b) % SizeMod

\* an or that keeps the second operand only
BitOrSecond(a, b) == b

RECURSIVE BitOr(_, _)
BitOr(a, b) ==
    IF a = 0 THEN b
    ELSE IF b = 0 THEN a
    ELSE (IF a % 2 = 1 \/ b % 2 = 1 THEN 1 ELSE 0) + 2 * BitOr(a \div 2, b \div 2)

\* mxtl::roundup
roundup(val, multiple) ==
    IF val = 0 THEN 0
    ELSE IF multiple = 0 THEN val
    ELSE Mul(Add(val, multiple - 1) \div multiple, multiple)

\* ------------------------------------------------------------------- bytes
DataByte(b) == <<"b", <<>>, b>>
ZeroByte == DataByte(0)
\* what an untouched tree buffer holds before the builder runs
JunkByte == <<"j", <<>>, 0>>
\* a byte with at least one bit changed
Flip(byte) ==
    IF byte[1] = "b" THEN DataByte(1 - (byte[3] % 2)) ELSE <<"x", <<byte>>, 0>>

Zeros(n) == [i \in 1..n |-> ZeroByte]

\* |n| bytes starting |pos| bytes into |buf|; a read past the end of the
\* buffer is undefined and yields |oob|.
Read(buf, pos, n, oob) ==
    [i \in 1..n |-> IF pos + i <= Len(buf) THEN buf[pos + i] ELSE oob]

\* memcpy / memset into |buf| at |pos|; only the part inside the buffer is kept
Write(buf, pos, bytes) ==
    [i \in 1..Len(buf) |->
        IF i > pos /\ i <= pos + Len(bytes) THEN bytes[i - pos] ELSE buf[i]]

\* ------------------------------------------------------------------ Digest
\* merkle::Digest: |ctx| is what was absorbed since Init, |val| the bytes the
\* object holds (set by Final or by construction from bytes).
HashBytes(ctx) == [k \in 1..kLength |-> <<"h", ctx, k>>]
Digest0 == [ctx |-> <<>>, val |-> Zeros(kLength)]
Digest_Init(d) == [d EXCEPT !.ctx = <<>>]
Digest_Update(d, bytes) == [d EXCEPT !.ctx = d.ctx \o bytes]
Digest_Final(d) == [d EXCEPT !.val = HashBytes(d.ctx)]

LocalityTag(v) == <<"loc", <<>>, v>>
LengthTag(v) == <<"len", <<>>, v>>

\* DigestInit that hashes the locality and no length
DigestInitNoLength(digest, locality, length) ==
    Digest_Update(Digest_Init(digest), <<LocalityTag(locality)>>)

\* DigestInit that hashes the length as it is given
DigestInitUnclamped(digest, locality, length) ==
    Digest_Update(Digest_Update(Digest_Init(digest), <<LocalityTag(locality)>>),
                  <<LengthTag(length)>>)

DigestInit(digest, locality, length) ==
    Digest_Update(Digest_Update(Digest_Init(digest), <<LocalityTag(locality)>>),
                  <<LengthTag(Min(length, kNodeSize))>>)

\* the number of bytes DigestUpdate hashes
DigestUpdateLen(offset, length) ==
    Min(length, kNodeSize - (offset % kNodeSize))

DigestUpdate(digest, bytes) == Digest_Update(digest, bytes)

\* DigestFinal that pads the node of the empty blob too
DigestFinalPadEmpty(digest, offset) ==
    LET off == offset % kNodeSize
    IN  IF off # 0 \/ offset = 0
        THEN Digest_Final(Digest_Update(digest, Zeros(kNodeSize - off)))
        ELSE Digest_Final(digest)

DigestFinal(digest, offset) ==
    LET off == offset % kNodeSize
    IN  IF off # 0
        THEN Digest_Final(Digest_Update(digest, Zeros(kNodeSize - off)))
        ELSE Digest_Final(digest)

\* ---------------------------------------------------------- level geometry
\* NextLength of a length that is not rounded up to whole nodes first
NextLengthUnrounded(length) ==
    IF length > kNodeSize THEN length \div kDigestsPerNode ELSE 0

NextLength(length) ==
    IF length > kNodeSize
    THEN roundup(length, kNodeSize) \div kDigestsPerNode
    ELSE 0

NextAligned(length) == roundup(NextLength(length), kNodeSize)

RECURSIVE GetTreeLength(_)
GetTreeLength(data_len) ==
    LET next_len == NextAligned(data_len)
    IN  IF next_len = 0 THEN 0 ELSE Add(next_len, GetTreeLength(next_len))

\* ----------------------------------------------------------------- builder
\* One Tree object per level; mt[k + 1] is the object of level k and
\* mt[k + 2] the one its next_ points to (next_ is null past the end).
Tree0 == [initialized |-> FALSE, level |-> 0, offset |-> 0, length |-> 0,
          digest |-> Digest0]

\* what is left of the tree buffer without the level's region
RemainingWhole(tree_len, next_len) == tree_len

\* what is left of the tree buffer above the level's region
Remaining(tree_len, next_len) == tree_len - next_len

\* an offset_ that CreateInit leaves where the earlier build stopped
KeepOffset(offset) == offset

\* offset_ = 0 in CreateInit
ResetOffset(offset) == 0

\* |allocs| is the number of allocations that still succeed.
RECURSIVE CreateInit(_, _, _, _, _)
CreateInit(mt, k, data_len, tree_len, allocs) ==
    LET m1 == [mt EXCEPT ![k].initialized = TRUE,
                         ![k].offset = ResetOffset(mt[k].offset),
                         ![k].length = data_len]
    IN  IF data_len <= kNodeSize THEN [mt |-> m1, rc |-> NO_ERROR]
        ELSE IF allocs = 0
        THEN [mt |-> SubSeq(m1, 1, k), rc |-> ERR_NO_MEMORY]
        ELSE LET m2 == Append(SubSeq(m1, 1, k),
                              [Tree0 EXCEPT !.level = m1[k].level + 1])
                 next_len == NextAligned(data_len)
             IN  IF tree_len < next_len
                 THEN [mt |-> m2, rc |-> ERR_BUFFER_TOO_SMALL]
                 ELSE CreateInit(m2, k + 1, next_len,
                                 Remaining(tree_len, next_len), allocs - 1)

\* A pointer is [buf |-> "data" | "tree" | "null", pos |-> offset in it].
Ptr(buf, pos) == [buf |-> buf, pos |-> pos]
NULL == Ptr("null", 0)
PtrAdd(p, n) == [p EXCEPT !.pos = p.pos + n]
IsNull(p) == p.buf = "null" /\ p.pos = 0

ReadPtr(p, n, data, tree, oob) ==
    IF p.buf = "data" THEN Read(data, p.pos, n, oob)
    ELSE IF p.buf = "tree" THEN Read(tree, p.pos, n, oob)
    ELSE [i \in 1..n |-> oob]

WritePtr(tree, p, bytes) ==
    IF p.buf = "tree" THEN Write(tree, p.pos, bytes) ELSE tree

\* a tree node that is never taken for a new one
StartsNoTreeNode(tree_off) == FALSE

\* the digest about to be stored is the first one of its tree node
StartsTreeNode(tree_off) == tree_off % kNodeSize = 0

\* The loop of CreateUpdate and CreateUpdate itself.  |data| is the caller's
\* chunk, |tree| the tree buffer; the result is [mt, tree, rc].
RECURSIVE CreateUpdateLoop(_, _, _, _, _, _, _, _, _, _)
RECURSIVE CreateUpdate(_, _, _, _, _, _, _, _)

CreateUpdateLoop(mt, tree, k, data, in, length, out, tree_off, next, dbg) ==
    IF length = 0 THEN [mt |-> mt, tree |-> tree, rc |-> NO_ERROR]
    ELSE
    LET me == mt[k]
        d1 == IF me.offset % kNodeSize = 0
              THEN DigestInit(me.digest, BitOr(me.offset, me.level),
                              Sub(me.length, me.offset))
              ELSE me.digest
        chunk == DigestUpdateLen(me.offset, length)
        d2 == DigestUpdate(d1, ReadPtr(in, chunk, data, tree, JunkByte))
        off2 == Add(me.offset, chunk)
        m2 == [mt EXCEPT ![k].digest = d2, ![k].offset = off2]
    IN  IF off2 % kNodeSize # 0 /\ off2 # me.length
        THEN [mt |-> m2, tree |-> tree, rc |-> NO_ERROR]
        ELSE
        LET d3 == DigestFinal(d2, off2)
            m3 == [m2 EXCEPT ![k].digest = d3]
        IN  IF me.length <= kNodeSize
            THEN [mt |-> m3, tree |-> tree, rc |-> NO_ERROR]
            ELSE
            LET t1 == IF StartsTreeNode(tree_off)
                      THEN WritePtr(tree, out, Zeros(kNodeSize))
                      ELSE tree
                t2 == WritePtr(t1, out, d3.val)
                r == CreateUpdate(m3, t2, k + 1, data, out, kLength, next, dbg)
            IN  IF r.rc # NO_ERROR THEN r
                ELSE CreateUpdateLoop(r.mt, r.tree, k, data,
                                      PtrAdd(in, chunk), length - chunk,
                                      PtrAdd(out, kLength),
                                      Add(tree_off, kLength), next, dbg)

\* TreeOffset without the alignment of the offset to its node
TreeOffsetUnaligned(offset) == offset \div kDigestsPerNode

\* where in its level's region the digest of the node holding |offset| goes
TreeOffset(offset) == (offset - (offset % kNodeSize)) \div kDigestsPerNode

\* The checks CreateUpdate makes before it reads or writes anything: the
\* status it returns early, or GO when it goes on to hash.
GO == "go"

\* CreateUpdateCheck without the test of the tree pointer
CreateUpdateCheckAnyTree(me, in, length, treep, dbg) ==
    IF dbg /\ Add(me.offset, length) < me.offset THEN PANIC
    ELSE IF ~me.initialized THEN ERR_BAD_STATE
    ELSE IF length = 0 THEN NO_ERROR
    ELSE IF Add(me.offset, length) > me.length THEN ERR_OUT_OF_RANGE
    ELSE IF IsNull(in) THEN ERR_INVALID_ARGS
    ELSE GO

\* CreateUpdateCheck with the early exit of an empty update made last
CreateUpdateCheckEmptyLast(me, in, length, treep, dbg) ==
    IF dbg /\ Add(me.offset, length) < me.offset THEN PANIC
    ELSE IF ~me.initialized THEN ERR_BAD_STATE
    ELSE IF Add(me.offset, length) > me.length THEN ERR_OUT_OF_RANGE
    ELSE IF IsNull(in) \/ (IsNull(treep) /\ me.length > kNodeSize)
    THEN ERR_INVALID_ARGS
    ELSE IF length = 0 THEN NO_ERROR
    ELSE GO

\* CreateUpdateCheck with the early exit of an empty update made first
CreateUpdateCheckEmptyFirst(me, in, length, treep, dbg) ==
    IF dbg /\ Add(me.offset, length) < me.offset THEN PANIC
    ELSE IF length = 0 THEN NO_ERROR
    ELSE IF ~me.initialized THEN ERR_BAD_STATE
    ELSE IF Add(me.offset, length) > me.length THEN ERR_OUT_OF_RANGE
    ELSE IF IsNull(in) \/ (IsNull(treep) /\ me.length > kNodeSize)
    THEN ERR_INVALID_ARGS
    ELSE GO

CreateUpdateCheck(me, in, length, treep, dbg) ==
    IF dbg /\ Add(me.offset, length) < me.offset THEN PANIC
    ELSE IF ~me.initialized THEN ERR_BAD_STATE
    ELSE IF length = 0 THEN NO_ERROR
    ELSE IF Add(me.offset, length) > me.length THEN ERR_OUT_OF_RANGE
    ELSE IF IsNull(in) \/ (IsNull(treep) /\ me.length > kNodeSize)
    THEN ERR_INVALID_ARGS
    ELSE GO

CreateUpdate(mt, tree, k, data, in, length, treep, dbg) ==
    IF k > Len(mt) THEN [mt |-> mt, tree |-> tree, rc |-> FAULT]
    ELSE
    LET me == mt[k]
        early == CreateUpdateCheck(me, in, length, treep, dbg)
    IN  IF early # GO THEN [mt |-> mt, tree |-> tree, rc |-> early]
        ELSE
        LET tree_off == TreeOffset(me.offset)
            out == PtrAdd(treep, tree_off)
            next == PtrAdd(treep, NextAligned(me.length))
        IN  CreateUpdateLoop(mt, tree, k, data, in, length, out, tree_off,
                             next, dbg)

\* CreateFinalCheck without the test that level 0 was fed completely
CreateFinalCheckAnyOffset(me, treep, hasRoot) ==
    IF ~me.initialized THEN ERR_BAD_STATE
    ELSE IF ~hasRoot \/ (IsNull(treep) /\ me.length > kNodeSize)
    THEN ERR_INVALID_ARGS
    ELSE GO

\* The checks CreateFinalInternal makes first: the status it returns early,
\* or GO.
CreateFinalCheck(me, treep, hasRoot) ==
    IF ~me.initialized \/ (me.level = 0 /\ me.offset # me.length)
    THEN ERR_BAD_STATE
    ELSE IF ~hasRoot \/ (IsNull(treep) /\ me.length > kNodeSize)
    THEN ERR_INVALID_ARGS
    ELSE GO

\* CreateFinalInternal; the result is [mt, tree, root, rc] where |root| is
\* what *root holds afterwards.
RECURSIVE CreateFinalInternal(_, _, _, _, _, _, _, _)
CreateFinalInternal(mt, tree, k, datap, treep, root, hasRoot, dbg) ==
    IF k > Len(mt) THEN [mt |-> mt, tree |-> tree, root |-> root, rc |-> FAULT]
    ELSE
    LET me == mt[k]
        early == CreateFinalCheck(me, treep, hasRoot)
    IN  IF early # GO
        THEN [mt |-> mt, tree |-> tree, root |-> root, rc |-> early]
        ELSE
        LET m1 == IF me.length = 0
                  THEN [mt EXCEPT ![k].digest =
                            DigestFinal(DigestInit(me.digest, 0, 0), 0)]
                  ELSE mt
            tail == PtrAdd(datap, me.offset)
            r == CreateUpdate(m1, tree, k, <<>>, tail,
                              Sub(me.length, me.offset), treep, dbg)
        IN  IF r.rc # NO_ERROR
            THEN [mt |-> r.mt, tree |-> r.tree, root |-> root, rc |-> r.rc]
            ELSE
            LET m2 == [r.mt EXCEPT ![k].initialized = FALSE]
            IN  IF me.length <= kNodeSize
                THEN [mt |-> m2, tree |-> r.tree, root |-> m2[k].digest.val,
                      rc |-> NO_ERROR]
                ELSE CreateFinalInternal(m2, r.tree, k + 1, treep,
                                         PtrAdd(treep, NextAligned(me.length)),
                                         root, hasRoot, dbg)

CreateFinal(mt, tree, treep, root, hasRoot, dbg) ==
    CreateFinalInternal(mt, tree, 1, NULL, treep, root, hasRoot, dbg)

\* Tree::Create on a new Tree object
Create(data, datap, data_len, tree, treep, tree_len, root, allocs, dbg) ==
    LET i == CreateInit(<<Tree0>>, 1, data_len, tree_len, allocs)
        fail(rc) == [tree |-> tree, root |-> root, rc |-> rc]
    IN  IF i.rc # NO_ERROR THEN fail(i.rc)
        ELSE
        LET u == CreateUpdate(i.mt, tree, 1, data, datap, data_len, treep, dbg)
        IN  IF u.rc # NO_ERROR
            THEN [tree |-> u.tree, root |-> root, rc |-> u.rc]
            ELSE
            LET f == CreateFinal(u.mt, u.tree, treep, root, TRUE, dbg)
            IN  [tree |-> f.tree, root |-> f.root, rc |-> f.rc]

\* ---------------------------------------------------------------- verifier
\* actual != expected in VerifyLevel
DigestDiffers(actual, expected) == actual # expected

\* The loop of VerifyLevel: |in| and |expected| point into the level's data
\* and into its digests.
RECURSIVE VerifyLevelLoop(_, _, _, _, _, _, _, _, _)
VerifyLevelLoop(data, tree, data_len, in, expected, offset, length, level, oob) ==
    IF length = 0 THEN NO_ERROR
    ELSE
    LET d1 == DigestInit(Digest0, BitOr(offset, level), Sub(data_len, offset))
        chunk == DigestUpdateLen(offset, length)
        d2 == DigestUpdate(d1, ReadPtr(in, chunk, data, tree, oob))
        off2 == Add(offset, chunk)
        actual == DigestFinal(d2, off2)
    IN  IF DigestDiffers(actual.val,
                         ReadPtr(expected, kLength, data, tree, oob))
        THEN ERR_IO_DATA_INTEGRITY
        ELSE VerifyLevelLoop(data, tree, data_len, PtrAdd(in, chunk),
                             PtrAdd(expected, kLength), off2, length - chunk,
                             level, oob)

\* the node-aligned offset and length VerifyLevel works on
AlignedOffset(offset) == offset - (offset % kNodeSize)
AlignedLength(offset, length) ==
    Sub(roundup(Add(AlignedOffset(offset), length), kNodeSize),
        AlignedOffset(offset))

VerifyLevel(data, tree, datap, data_len, treep, offset, length, level, dbg, oob) ==
    IF dbg /\ Add(offset, length) < offset THEN PANIC
    ELSE IF IsNull(datap) \/ data_len <= kNodeSize \/ IsNull(treep)
    THEN ERR_INVALID_ARGS
    ELSE IF Add(offset, length) > data_len THEN ERR_OUT_OF_RANGE
    ELSE
    LET off == AlignedOffset(offset)
        len == AlignedLength(offset, length)
    IN  VerifyLevelLoop(data, tree, data_len, PtrAdd(datap, off),
                        PtrAdd(treep, off \div kDigestsPerNode), off, len,
                        level, oob)

\* the digest VerifyRoot computes
RootDigest(data, tree, datap, root_len, level, oob) ==
    LET d1 == DigestInit(Digest0, level, IF root_len = 0 THEN 0 ELSE kNodeSize)
        d2 == DigestUpdate(d1, ReadPtr(datap, DigestUpdateLen(0, root_len),
                                       data, tree, oob))
    IN  DigestFinal(d2, root_len)

VerifyRoot(data, tree, datap, root_len, level, expected, oob) ==
    IF (IsNull(datap) /\ root_len # 0) \/ root_len > kNodeSize
    THEN ERR_INVALID_ARGS
    ELSE IF RootDigest(data, tree, datap, root_len, level, oob).val = expected
    THEN NO_ERROR
    ELSE ERR_IO_DATA_INTEGRITY

\* The loop of Verify, one iteration per level below the top.
RECURSIVE VerifyLoop(_, _, _, _, _, _, _, _, _, _, _, _, _)
VerifyLoop(data, tree, datap, data_len, root_len, treep, tree_len, offset, length, level, root, dbg, oob) ==
    IF data_len > kNodeSize
    THEN LET r == VerifyLevel(data, tree, datap, data_len, treep, offset,
                              length, level, dbg, oob)
             next_len == NextAligned(data_len)
         IN  IF r # NO_ERROR THEN r
             ELSE IF tree_len < next_len THEN ERR_BUFFER_TOO_SMALL
             ELSE VerifyLoop(data, tree, treep, next_len, NextLength(data_len),
                             PtrAdd(treep, next_len), tree_len - next_len,
                             offset \div kDigestsPerNode,
                             length \div kDigestsPerNode, level + 1, root,
                             dbg, oob)
    ELSE VerifyRoot(data, tree, datap, root_len, level, root, oob)

Verify(data, datap, data_len, tree, treep, tree_len, offset, length, root, dbg, oob) ==
    VerifyLoop(data, tree, datap, data_len, data_len, treep, tree_len, offset,
               length, 0, root, dbg, oob)

\* ------------------------------------------------------------ the program
VARIABLES
    gData,      \* the caller's data buffer, Len(gData) bytes long
    gTree,      \* the caller's tree buffer
    gDigest,    \* the bytes of the root digest the caller holds
    mt,         \* the builder: the chain of Tree objects
    rc,         \* the status the last call returned
    pc,         \* where the caller is
    feed,       \* how the data was fed to CreateUpdate so far
    built,      \* data, tree and root as Tree::Create left them
    tamper,     \* what was altered since
    call        \* the last call: its arguments and its result

vars == <<gData, gTree, gDigest, mt, rc, pc, feed, built, tamper, call>>

\* The blobs: every length up to MaxDataLen, filled like InitData fills gData
\* (one value in every byte).
Fills == {0, 1}
Blobs == {[i \in 1..n |-> DataByte(f)] : n \in 0..MaxDataLen, f \in Fills}

\* The tree buffer is one node longer than the largest tree.
TreeBufLen == GetTreeLength(MaxDataLen) + kNodeSize
FreshTree == [i \in 1..TreeBufLen |-> JunkByte]
TREE == Ptr("tree", 0)

NoFeed == [calls |-> 0, zero |-> FALSE, straddle |-> FALSE, early |-> FALSE]
NoBuilt == [data |-> <<>>, tree |-> <<>>, root |-> <<>>]
NoTamper == [kind |-> "none", idx |-> 0]
\* |offset| is the level-0 offset_ before a builder call, |data|, |tree| and
\* |root| tell which pointers were not null, |data_len| is the data_len
\* handed to Verify.
NoCall == [op |-> "none", offset |-> 0, length |-> 0, tree_len |-> 0,
           data_len |-> 0, data |-> FALSE, tree |-> FALSE, root |-> FALSE,
           rc |-> "none"]

Init ==
    /\ gData \in Blobs
    /\ gTree = FreshTree
    /\ gDigest = Zeros(kLength)
    /\ mt = <<Tree0>>
    /\ rc = "none"
    /\ pc = "fresh"
    /\ feed = NoFeed
    /\ built = NoBuilt
    /\ tamper = NoTamper
    /\ call = NoCall

\* merkleTree.CreateInit(gDataLen, tree_len) on a new Tree object
DoCreateInit ==
    /\ pc = "fresh"
    /\ \E tree_len \in {GetTreeLength(Len(gData)), GetTreeLength(Len(gData)) + 1,
                         Sub(GetTreeLength(Len(gData)), 1)},
          allocs \in {0, kNodeSize} :
          LET r == CreateInit(mt, 1, Len(gData), tree_len, allocs)
          IN  /\ mt' = r.mt
              /\ rc' = r.rc
              /\ pc' = IF r.rc = NO_ERROR THEN "open" ELSE "failed"
              /\ call' = [NoCall EXCEPT !.op = "CreateInit",
                                        !.length = Len(gData),
                                        !.tree_len = tree_len, !.rc = r.rc]
    /\ UNCHANGED <<gData, gTree, gDigest, feed, built, tamper>>

\* merkleTree.CreateUpdate(gData + offset_, len, gTree), either pointer
\* possibly null, for every |len| up to one byte more than is left to feed.
\* No such |len| wraps offset_ + len, so the assertion of the debug build
\* passes and the builds do not differ.
DoCreateUpdate ==
    /\ pc \in {"fresh", "open", "failed", "final"}
    /\ \E len \in 0..(mt[1].length - mt[1].offset + 1),
          hasData \in BOOLEAN, hasTree \in BOOLEAN :
          LET off == mt[1].offset
              r == CreateUpdate(mt, gTree, 1, gData,
                                IF hasData THEN Ptr("data", off) ELSE NULL, len,
                                IF hasTree THEN TREE ELSE NULL, FALSE)
          IN  /\ mt' = r.mt
              /\ gTree' = r.tree
              /\ rc' = r.rc
              /\ feed' = IF r.rc # NO_ERROR THEN feed
                         ELSE IF len = 0 THEN [feed EXCEPT !.zero = TRUE]
                         ELSE [feed EXCEPT
                                 !.calls = Min(feed.calls + 1, 2),
                                 !.straddle = feed.straddle \/
                                     (off % kNodeSize # 0 /\
                                      (off % kNodeSize) + len > kNodeSize)]
              /\ call' = [NoCall EXCEPT !.op = "CreateUpdate", !.offset = off,
                                        !.length = len, !.data = hasData,
                                        !.tree = hasTree, !.rc = r.rc]
    /\ UNCHANGED <<gData, gDigest, pc, built, tamper>>

\* merkleTree.CreateFinal(gTree, &gDigest)
DoCreateFinal ==
    /\ pc \in {"fresh", "open", "failed", "final"}
    /\ \E hasTree \in BOOLEAN, hasRoot \in BOOLEAN :
          LET r == CreateFinal(mt, gTree, IF hasTree THEN TREE ELSE NULL,
                               gDigest, hasRoot, FALSE)
          IN  /\ mt' = r.mt
              /\ gTree' = r.tree
              /\ gDigest' = r.root
              /\ rc' = r.rc
              /\ pc' = IF r.rc = NO_ERROR THEN "final" ELSE pc
              /\ feed' = IF pc = "open" /\ mt[1].offset < mt[1].length
                         THEN [feed EXCEPT !.early = TRUE]
                         ELSE feed
              /\ call' = [NoCall EXCEPT !.op = "CreateFinal",
                                        !.offset = mt[1].offset,
                                        !.tree = hasTree, !.root = hasRoot,
                                        !.rc = r.rc]
    /\ UNCHANGED <<gData, built, tamper>>

\* merkleTree.CreateUpdate(gData + offset_, SIZE_MAX, gTree) after some bytes
\* were fed: offset_ + length wraps.  The debug build stops at its assertion;
\* the release build goes on, and nothing is modelled after it.
DoCreateUpdateWrap ==
    /\ pc = "open"
    /\ mt[1].offset > 0
    /\ \E dbg \in BOOLEAN :
          LET off == mt[1].offset
              r == CreateUpdate(mt, gTree, 1, gData, Ptr("data", off),
                                SizeMod - 1, TREE, dbg)
          IN  /\ mt' = r.mt
              /\ gTree' = r.tree
              /\ rc' = r.rc
              /\ call' = [NoCall EXCEPT !.op = "CreateUpdate", !.offset = off,
                                        !.length = SizeMod - 1, !.data = TRUE,
                                        !.tree = TRUE, !.rc = r.rc]
    /\ pc' = "overrun"
    /\ UNCHANGED <<gData, gDigest, feed, built, tamper>>

Next == DoCreateInit \/ DoCreateUpdate \/ DoCreateUpdateWrap \/ DoCreateFinal

Spec == Init /\ [][Next]_vars

\* ------------------------------------------------- the builder, used again
NoTamperYet == tamper.kind = "none"
Again == [kind |-> "again", idx |-> 0]

\* merkleTree.CreateInit(gDataLen, tree_len) on the Tree object an earlier
\* build used, wherever that build stopped, after InitData has put another
\* blob into gData; gTree and gDigest hold what the earlier build left.
DoCreateInitAgain ==
    /\ NoTamperYet
    /\ \E data \in Blobs :
          \E tree_len \in {GetTreeLength(Len(data)), GetTreeLength(Len(data)) + 1,
                           Sub(GetTreeLength(Len(data)), 1)},
             allocs \in {0, kNodeSize} :
             LET r == CreateInit(mt, 1, Len(data), tree_len, allocs)
             IN  /\ gData' = data
                 /\ mt' = r.mt
                 /\ rc' = r.rc
                 /\ pc' = IF r.rc = NO_ERROR THEN "open" ELSE "failed"
                 /\ call' = [NoCall EXCEPT !.op = "CreateInit",
                                           !.length = Len(data),
                                           !.tree_len = tree_len, !.rc = r.rc]
    /\ feed' = NoFeed
    /\ tamper' = Again
    /\ UNCHANGED <<gTree, gDigest, built>>

\* merkleTree.CreateUpdate(gData + offset_, len, gTree) with some of the bytes
\* that are left to feed
DoCreateUpdatePart ==
    /\ pc \in {"open", "failed"}
    /\ \E len \in 1..(mt[1].length - mt[1].offset) :
          LET off == mt[1].offset
              r == CreateUpdate(mt, gTree, 1, gData, Ptr("data", off), len,
                                TREE, FALSE)
          IN  /\ mt' = r.mt
              /\ gTree' = r.tree
              /\ rc' = r.rc
              /\ call' = [NoCall EXCEPT !.op = "CreateUpdate", !.offset = off,
                                        !.length = len, !.data = TRUE,
                                        !.tree = TRUE, !.rc = r.rc]
    /\ UNCHANGED <<gData, gDigest, pc, feed, built, tamper>>

AgainNext ==
    DoCreateInit \/ DoCreateUpdatePart \/ DoCreateFinal \/ DoCreateInitAgain

AgainSpec == Init /\ [][AgainNext]_vars

\* ------------------------------------------------ the geometry of the tree
\* Every length of the machine word, with no blob behind it.
Lengths == 0..(SizeMod - 1)

InitLength ==
    /\ gData = <<>>
    /\ gTree = FreshTree
    /\ gDigest = Zeros(kLength)
    /\ mt = <<Tree0>>
    /\ rc = "none"
    /\ pc = "fresh"
    /\ feed = NoFeed
    /\ built = NoBuilt
    /\ tamper = NoTamper
    /\ call = NoCall

\* Tree::GetTreeLength(data_len); call.tree_len is what it returns
DoGetTreeLength ==
    /\ pc = "fresh"
    /\ \E data_len \in Lengths :
          call' = [NoCall EXCEPT !.op = "GetTreeLength", !.length = data_len,
                                 !.tree_len = GetTreeLength(data_len)]
    /\ pc' = "length"
    /\ UNCHANGED <<gData, gTree, gDigest, mt, rc, feed, built, tamper>>

\* merkleTree.CreateInit(data_len, tree_len) on a new Tree object, for every
\* pair of lengths and every number of allocations that succeed
DoCreateInitLength ==
    /\ pc = "fresh"
    /\ \E data_len \in Lengths, tree_len \in Lengths, allocs \in 0..kNodeSize :
          LET r == CreateInit(mt, 1, data_len, tree_len, allocs)
          IN  /\ mt' = r.mt
              /\ rc' = r.rc
              /\ pc' = IF r.rc = NO_ERROR THEN "open" ELSE "failed"
              /\ call' = [NoCall EXCEPT !.op = "CreateInit",
                                        !.length = data_len,
                                        !.tree_len = tree_len, !.rc = r.rc]
    /\ UNCHANGED <<gData, gTree, gDigest, feed, built, tamper>>

LengthNext == DoGetTreeLength \/ DoCreateInitLength

LengthSpec == InitLength /\ [][LengthNext]_vars

\* ---------------------------------------------- build, alter, then verify
DATA == Ptr("data", 0)
TreeLen == GetTreeLength(Len(gData))

\* Tree::Create(gData, gDataLen, gTree, gTreeLen, &gDigest)
DoCreate ==
    /\ pc = "fresh"
    /\ LET r == Create(gData, DATA, Len(gData), gTree, TREE, TreeLen, gDigest,
                       kNodeSize, FALSE)
       IN  /\ gTree' = r.tree
           /\ gDigest' = r.root
           /\ rc' = r.rc
           /\ built' = [data |-> gData, tree |-> r.tree, root |-> r.root]
    /\ pc' = "built"
    /\ UNCHANGED <<gData, mt, feed, tamper, call>>

\* gData[i] ^= 1
TamperData ==
    /\ pc = "built" /\ tamper = NoTamper
    /\ \E i \in 1..Len(gData) :
          /\ gData' = [gData EXCEPT ![i] = Flip(gData[i])]
          /\ tamper' = [kind |-> "data", idx |-> i - 1]
    /\ UNCHANGED <<gTree, gDigest, mt, rc, pc, feed, built, call>>

\* gTree[j] ^= 1
TamperTree ==
    /\ pc = "built" /\ tamper = NoTamper
    /\ \E j \in 1..(TreeLen + 1) :
          /\ gTree' = [gTree EXCEPT ![j] = Flip(gTree[j])]
          /\ tamper' = [kind |-> "tree", idx |-> j - 1]
    /\ UNCHANGED <<gData, gDigest, mt, rc, pc, feed, built, call>>

\* the digest of data node |node| as the builder computes it
NodeDigest(data, node) ==
    LET off == node * kNodeSize
        n == Min(kNodeSize, Len(data) - off)
        d == DigestUpdate(DigestInit(Digest0, BitOr(off, 0), Len(data) - off),
                          Read(data, off, n, JunkByte))
    IN  DigestFinal(d, off + n).val

\* An adversary alters a data byte and stores the digest of the altered node
\* in the tree.
ForgeNode ==
    /\ pc = "built" /\ tamper = NoTamper
    /\ Len(gData) > kNodeSize
    /\ \E i \in 1..Len(gData) :
          LET forged == [gData EXCEPT ![i] = Flip(gData[i])]
              node == (i - 1) \div kNodeSize
          IN  /\ gData' = forged
              /\ gTree' = Write(gTree, node * kLength, NodeDigest(forged, node))
              /\ tamper' = [kind |-> "forge", idx |-> i - 1]
    /\ UNCHANGED <<gDigest, mt, rc, pc, feed, built, call>>

\* The caller holds a root other than the one Create returned: one with a
\* byte changed, or the digest of the top node under a full-node length tag.
FullNodeRoot ==
    HashBytes(<<LocalityTag(0), LengthTag(kNodeSize)>> \o gData
              \o Zeros(kNodeSize - Len(gData)))

TamperRoot ==
    /\ pc = "built" /\ tamper = NoTamper
    /\ \E k \in 0..kLength :
          /\ k = 0 => Len(gData) \in 1..kNodeSize
          /\ gDigest' = IF k = 0 THEN FullNodeRoot
                        ELSE [gDigest EXCEPT ![k] = Flip(gDigest[k])]
          /\ gDigest' # gDigest
          /\ tamper' = [kind |-> "root", idx |-> k]
    /\ UNCHANGED <<gData, gTree, mt, rc, pc, feed, built, call>>

\* Tree::Verify(gData, gDataLen, gTree, tree_len, offset, length, gDigest) in
\* a debug or a release build; |oob| is what lies past the end of a buffer.
VerifyOffsets == 0..(MaxDataLen + 1) \cup {SizeMod - 1}
DoVerify ==
    /\ pc = "built"
    /\ \E offset \in VerifyOffsets, length \in VerifyOffsets,
          tree_len \in {TreeLen, TreeLen + 1, Sub(TreeLen, 1)},
          dbg \in BOOLEAN, oob \in {ZeroByte, JunkByte} :
          LET r == Verify(gData, DATA, Len(gData), gTree, TREE, tree_len,
                          offset, length, gDigest, dbg, oob)
          IN  /\ rc' = r
              /\ call' = [NoCall EXCEPT !.op = "Verify", !.offset = offset,
                                        !.length = length,
                                        !.tree_len = tree_len,
                                        !.data_len = Len(gData), !.rc = r]
    /\ pc' = "verified"
    /\ UNCHANGED <<gData, gTree, gDigest, mt, feed, built, tamper>>

\* Tree::Verify(gData, data_len, gTree, gTreeLen, offset, length, gDigest) on
\* what Create left, with a data_len smaller than the one the tree was built
\* for and a range inside the blob
DoVerifyShorter ==
    /\ pc = "built"
    /\ tamper = NoTamper
    /\ \E data_len \in 0..(Len(gData) - 1),
          offset \in 0..Len(gData), length \in 0..Len(gData),
          oob \in {ZeroByte, JunkByte} :
          LET r == Verify(gData, DATA, data_len, gTree, TREE, TreeLen, offset,
                          length, gDigest, FALSE, oob)
          IN  /\ offset + length <= Len(gData)
              /\ rc' = r
              /\ call' = [NoCall EXCEPT !.op = "Verify", !.offset = offset,
                                        !.length = length,
                                        !.tree_len = TreeLen,
                                        !.data_len = data_len, !.rc = r]
    /\ pc' = "shorter"
    /\ UNCHANGED <<gData, gTree, gDigest, mt, feed, built, tamper>>

VerifyNext ==
    \/ DoCreate \/ TamperData \/ TamperTree \/ ForgeNode \/ TamperRoot
    \/ DoVerify \/ DoVerifyShorter

VerifySpec == Init /\ [][VerifyNext]_vars

\* ------------------------------------------------------------- properties
\* What Tree::Create yields for the blob: the reference for the streaming
\* builder.
OneShot ==
    Create(gData, DATA, Len(gData), FreshTree, TREE, TreeLen, Zeros(kLength),
           kNodeSize, FALSE)

Verified == pc = "verified"
\* offset + length <= data_len, as numbers
InRange == call.offset + call.length <= Len(gData)
EnoughTree == call.tree_len >= TreeLen
\* data node |node| overlaps the requested range
Covered(node) ==
    /\ call.length > 0
    /\ call.offset \div kNodeSize <= node
    /\ node <= (call.offset + call.length - 1) \div kNodeSize
NodeOf(i) == i \div kNodeSize
NodeBytes(data, node) ==
    SubSeq(data, node * kNodeSize + 1, Min(Len(data), (node + 1) * kNodeSize))

\* C1: after Create, Verify of any in-range offset and length returns Ok,
\* for every data_len.
C1_RoundTrip ==
    (Verified /\ tamper = NoTamper /\ InRange /\ call.tree_len = TreeLen)
        => call.rc = NO_ERROR

\* C2: whatever the chunking of the CreateUpdate calls, a successful
\* CreateFinal leaves the root and tree[0, tree_length) that one-shot Create
\* yields for the same data.
C2_ChunkingIndependence ==
    (pc = "final") =>
        /\ gDigest = OneShot.root
        /\ SubSeq(gTree, 1, TreeLen) = SubSeq(OneShot.tree, 1, TreeLen)

\* a three-level build fed by several calls, one of them straddling a node
\* boundary and one of them empty
C2_Witness ==
    /\ pc = "final" /\ rc = NO_ERROR
    /\ Len(gData) > kNodeSize * kDigestsPerNode
    /\ feed.calls >= 2 /\ feed.straddle /\ feed.zero

\* C3: with the root Create returned, if Verify of a non-empty in-range
\* request returns Ok then every data node overlapping the request is as it
\* was built.
C3_NoForgery ==
    (Verified /\ tamper.kind # "root" /\ InRange /\ call.length > 0
        /\ call.rc = NO_ERROR)
        => \A node \in 0..NodeOf(MaxDataLen) :
              Covered(node) => NodeBytes(gData, node) = NodeBytes(built.data, node)

\* C4: a changed data byte inside a node the request covers makes Verify
\* return IoDataIntegrity.
C4_DataTamperDetected ==
    (Verified /\ tamper.kind = "data" /\ InRange /\ EnoughTree
        /\ Covered(NodeOf(tamper.idx)))
        => call.rc = ERR_IO_DATA_INTEGRITY

\* C5: a changed byte in the stored digest of a data node the request covers
\* makes Verify return IoDataIntegrity.
C5_TreeTamperDetected ==
    (Verified /\ tamper.kind = "tree" /\ InRange /\ EnoughTree
        /\ Len(gData) > kNodeSize
        /\ tamper.idx \div kLength <= NodeOf(Len(gData) - 1)
        /\ Covered(tamper.idx \div kLength))
        => call.rc = ERR_IO_DATA_INTEGRITY

\* C6: with untouched data and tree, Verify of any in-range request with a
\* root other than the built one returns IoDataIntegrity.
C6_RootTamperDetected ==
    (Verified /\ tamper.kind = "root" /\ InRange /\ EnoughTree)
        => call.rc = ERR_IO_DATA_INTEGRITY

\* C7: a changed data byte outside the nodes the request covers leaves the
\* result of Verify Ok.
C7_OutsideTolerated ==
    (Verified /\ tamper.kind = "data" /\ InRange /\ EnoughTree
        /\ ~Covered(NodeOf(tamper.idx)))
        => call.rc = NO_ERROR

\* C8: Verify returns OutOfRange whenever offset + length > data_len.
C8_OutOfRange ==
    (Verified /\ ~InRange) => call.rc = ERR_OUT_OF_RANGE

\* C9: for an in-range request Verify returns BufferTooSmall exactly when
\* tree_cap < tree_length(data_len), whatever the buffers hold, and any
\* larger capacity gives the result of tree_cap = tree_length(data_len).
C9_BufferTooSmall ==
    (Verified /\ InRange) =>
        /\ (call.rc = ERR_BUFFER_TOO_SMALL) <=> (call.tree_len < TreeLen)
        /\ EnoughTree =>
              \E oob \in {ZeroByte, JunkByte} :
                  call.rc = Verify(gData, DATA, Len(gData), gTree, TREE, TreeLen,
                                   call.offset, call.length, gDigest, FALSE, oob)

\* C10: a zero-length in-range request with the right root and tree returns
\* Ok whatever the data holds.
C10_ZeroLength ==
    (Verified /\ tamper.kind \in {"none", "data"} /\ call.length = 0
        /\ InRange /\ EnoughTree)
        => call.rc = NO_ERROR

\* C11: unless an allocation failed, CreateInit(data_len, tree_len) returns
\* BufferTooSmall exactly when tree_len < GetTreeLength(data_len) and Ok
\* otherwise: taking each level's region off the capacity in turn agrees
\* with the one comparison.  With data_len <= kNodeSize it succeeds whatever
\* tree_len is, 0 included.
C11_InitBufferTooSmall ==
    (call.op = "CreateInit" /\ call.rc # ERR_NO_MEMORY) =>
        /\ call.rc \in {NO_ERROR, ERR_BUFFER_TOO_SMALL}
        /\ (call.rc = ERR_BUFFER_TOO_SMALL) <=>
               (call.tree_len < GetTreeLength(call.length))
        /\ (call.length <= kNodeSize) => (call.rc = NO_ERROR)

\* a capacity that holds the first region of a three-level tree but not the
\* second one is refused
C11_Witness ==
    /\ call.op = "CreateInit"
    /\ call.length > kNodeSize * kDigestsPerNode
    /\ call.tree_len >= NextAligned(call.length)
    /\ call.tree_len < GetTreeLength(call.length)
    /\ call.rc = ERR_BUFFER_TOO_SMALL

\* C12: after CreateInit returned BufferTooSmall or NoMemory the builder is as
\* it was before the call: every CreateUpdate and CreateFinal that follows
\* returns BadState.
C12_FailedInitLeavesFresh ==
    (pc = "failed" /\ call.op \in {"CreateUpdate", "CreateFinal"})
        => call.rc = ERR_BAD_STATE

\* C13: on a Tree that CreateInit was never called on, and on one whose
\* CreateFinal has succeeded, every CreateUpdate (an empty one too) and every
\* CreateFinal returns BadState and changes nothing, whatever data_len is.
C13_BadStateUnlessOpen ==
    [][(pc \in {"fresh", "final"} /\ call'.op \in {"CreateUpdate", "CreateFinal"})
          => (call'.rc = ERR_BAD_STATE /\ pc' = pc /\ mt' = mt
              /\ gTree' = gTree /\ gDigest' = gDigest)]_vars

\* an empty CreateUpdate after the CreateFinal of the empty blob
C13_Witness ==
    /\ pc = "final"
    /\ Len(gData) = 0
    /\ call.op = "CreateUpdate" /\ call.length = 0
    /\ call.rc = ERR_BAD_STATE

\* C14: a CreateFinal made while less than data_len bytes were fed to an
\* open builder returns BadState and leaves the builder open, with every
\* level's offset and digest state, the tree and the root slot as they were;
\* the CreateFinal that succeeds after the rest was fed yields the root and
\* the tree of Create.
C14_EarlyFinal ==
    /\ [][(pc = "open" /\ call'.op = "CreateFinal"
             /\ mt[1].offset < mt[1].length)
            => (call'.rc = ERR_BAD_STATE /\ pc' = "open" /\ mt' = mt
                /\ gTree' = gTree /\ gDigest' = gDigest)]_vars
    /\ []((pc = "final" /\ feed.early) =>
            /\ gDigest = OneShot.root
            /\ SubSeq(gTree, 1, TreeLen) = SubSeq(OneShot.tree, 1, TreeLen))

\* a multi-level build that CreateFinal was called on too early, completed
C14_Witness ==
    /\ pc = "final" /\ feed.early
    /\ Len(gData) > kNodeSize
    /\ call.op = "CreateFinal" /\ call.rc = NO_ERROR

\* C15: a CreateUpdate of len > 0 bytes on an open builder returns OutOfRange
\* whenever the level-0 offset plus len is more than data_len, so the bytes
\* accepted never come to more than data_len.
C15_UpdateOutOfRange ==
    (pc \in {"open", "overrun"}) =>
        /\ (call.op = "CreateUpdate" /\ call.length > 0
              /\ call.offset + call.length > Len(gData))
               => call.rc = ERR_OUT_OF_RANGE
        /\ mt[1].offset <= Len(gData)

\* what C16 takes for an invalid argument of CreateUpdate
AbsentPointer ==
    \/ ~call.data /\ call.length > 0
    \/ ~call.tree /\ Len(gData) > kNodeSize

C17_EmptyUpdate ==
    /\ [][(pc = "open" /\ call'.op = "CreateUpdate" /\ call'.length = 0)
            => (call'.rc = NO_ERROR /\ pc' = "open" /\ mt' = mt
                /\ gTree' = gTree /\ gDigest' = gDigest)]_vars
    /\ []((pc = "final" /\ feed.zero) =>
            /\ gDigest = OneShot.root
            /\ SubSeq(gTree, 1, TreeLen) = SubSeq(OneShot.tree, 1, TreeLen))

\* an empty update with both pointers null, in the middle of a node of a
\* multi-level blob
C17_Witness ==
    /\ pc = "open"
    /\ Len(gData) > kNodeSize
    /\ call.op = "CreateUpdate" /\ call.length = 0
    /\ ~call.data /\ ~call.tree
    /\ call.offset % kNodeSize # 0
    /\ call.rc = NO_ERROR

\* C18: for every data_len of the machine word, GetTreeLength(data_len) is 0
\* exactly when data_len <= kNodeSize.
C18_NoTreeIffOneNode ==
    (call.op = "GetTreeLength")
        => ((call.tree_len = 0) <=> (call.length <= kNodeSize))

\* the least multiple of |m| that is not less than |n|, in the integers
CeilTo(n, m) == ((n + m - 1) \div m) * m

\* the node-aligned sizes of the digest regions above a level of |n| bytes,
\* summed in the integers
RECURSIVE RegionsAbove(_)
RegionsAbove(n) ==
    IF n <= kNodeSize THEN 0
    ELSE LET region == CeilTo((CeilTo(n, kNodeSize) \div kNodeSize) * kLength,
                              kNodeSize)
         IN  region + RegionsAbove(region)

\* C19: GetTreeLength(data_len) is the sum of the node-aligned sizes of the
\* digest regions above level 0: kNodeSize for a blob of more than one node
\* and of at most kDigestsPerNode nodes, 3 * kNodeSize for one byte more; it
\* is a multiple of kNodeSize and does not decrease as data_len grows.
C19_TreeLengthValues ==
    (call.op = "GetTreeLength") =>
        /\ call.tree_len = RegionsAbove(call.length)
        /\ (kNodeSize < call.length /\ call.length <= kNodeSize * kDigestsPerNode)
               => call.tree_len = kNodeSize
        /\ (call.length = kNodeSize * kDigestsPerNode + 1)
               => call.tree_len = 3 * kNodeSize
        /\ call.tree_len % kNodeSize = 0
        /\ \A n \in 0..call.length : GetTreeLength(n) <= call.tree_len

\* what the root of the empty blob is the hash of, without and with a node
\* of zero bytes after the two tags
EmptyInput == <<LocalityTag(0), LengthTag(0)>>
EmptyInputPadded == EmptyInput \o Zeros(kNodeSize)

\* C20 as stated: the root Create returns for data_len = 0 is the hash of
\* the locality tag 0, the length tag 0 and kNodeSize zero bytes, and Verify
\* of the empty blob hashes the same input.
C20_EmptyRootAsStated ==
    (pc \in {"built", "verified"} /\ Len(gData) = 0) =>
        /\ built.root = HashBytes(EmptyInputPadded)
        /\ \A oob \in {ZeroByte, JunkByte} :
              RootDigest(gData, gTree, DATA, 0, 0, oob).ctx = EmptyInputPadded

\* C20: the root Create returns for data_len = 0 is the hash of the locality
\* tag 0 and the length tag 0 and of nothing else; Verify of the empty blob
\* hashes the same input, so it accepts that root and no other.
C20_EmptyRoot ==
    (pc \in {"built", "verified"} /\ Len(gData) = 0) =>
        /\ built.root = HashBytes(EmptyInput)
        /\ \A oob \in {ZeroByte, JunkByte} :
              RootDigest(gData, gTree, DATA, 0, 0, oob).ctx = EmptyInput
        /\ (pc = "verified" /\ call.offset = 0 /\ call.length = 0) =>
              call.rc = IF gDigest = built.root THEN NO_ERROR
                        ELSE ERR_IO_DATA_INTEGRITY

\* the empty blob built and verified with the root Create returned
C20_Witness ==
    /\ pc = "verified"
    /\ Len(gData) = 0
    /\ gDigest = built.root
    /\ call.offset = 0 /\ call.length = 0
    /\ call.rc = NO_ERROR

\* the root Tree::Create returns for |data|
RootOf(data) ==
    Create(data, DATA, Len(data), FreshTree, TREE, GetTreeLength(Len(data)),
           Zeros(kLength), kNodeSize, FALSE).root

\* |data| followed by zero bytes up to |n| bytes
ZeroExtended(data, n) == data \o Zeros(n - Len(data))

NodesOf(n) == (n + kNodeSize - 1) \div kNodeSize

\* C21: the root Create returns for a blob differs from the root it returns
\* for every blob of another length, one that is the blob cut short or
\* extended with zero bytes included (the hash is free of collisions).
C21_RootCommitsToLength ==
    (pc = "built" /\ tamper = NoTamper) =>
        \A other \in Blobs :
            Len(other) # Len(gData) => RootOf(other) # gDigest

\* a blob of zero bytes built, with a shorter blob of as many nodes and
\* levels that extended with zero bytes is the same
C21_Witness ==
    /\ pc = "built" /\ tamper = NoTamper /\ rc = NO_ERROR
    /\ Len(gData) > kNodeSize
    /\ \E other \in Blobs :
          /\ Len(other) < Len(gData)
          /\ ZeroExtended(other, Len(gData)) = gData
          /\ NodesOf(Len(other)) = NodesOf(Len(gData))
          /\ GetTreeLength(Len(other)) = TreeLen

\* The layout as the specification gives it.  The digest of node |i| of a
\* level of index |k| holding |bytes|:
NodeHashOf(bytes, k, i) ==
    LET off == i * kNodeSize
        n == Min(kNodeSize, Len(bytes) - off)
    IN  HashBytes(<<LocalityTag(off + k), LengthTag(n)>>
                  \o SubSeq(bytes, off + 1, off + n) \o Zeros(kNodeSize - n))

\* the digests of nodes |i|, |i| + 1, ... of that level, one after the other
RECURSIVE DigestsFrom(_, _, _)
DigestsFrom(bytes, k, i) ==
    IF i >= NodesOf(Len(bytes)) THEN <<>>
    ELSE NodeHashOf(bytes, k, i) \o DigestsFrom(bytes, k, i + 1)

\* the region of the level above: its digests, then zero bytes up to a
\* whole number of nodes
RegionAbove(bytes, k) ==
    LET digests == DigestsFrom(bytes, k, 0)
    IN  ZeroExtended(digests, CeilTo(Len(digests), kNodeSize))

\* the regions above a level, lowest first, and the root above them
RECURSIVE LayoutAbove(_, _)
LayoutAbove(bytes, k) ==
    IF Len(bytes) <= kNodeSize
    THEN [tree |-> <<>>, root |-> NodeHashOf(bytes, k, 0)]
    ELSE LET up == LayoutAbove(RegionAbove(bytes, k), k + 1)
         IN  [tree |-> RegionAbove(bytes, k) \o up.tree, root |-> up.root]

\* some kLength bytes in a row of |buf| are |digest|
HoldsDigest(buf, digest) ==
    \E j \in 0..(Len(buf) - kLength) : SubSeq(buf, j + 1, j + kLength) = digest

\* C22: after a successful build of more than kNodeSize bytes the tree holds
\* the regions of the levels above level 0, lowest first, each one the
\* digests of the nodes of the level below in order followed by zero bytes
\* up to a whole number of nodes, whatever the buffer held before; the root
\* is stored nowhere in the tree.
C22_TreeLayout ==
    (pc = "final" /\ Len(gData) > kNodeSize) =>
        /\ SubSeq(gTree, 1, TreeLen) = LayoutAbove(gData, 0).tree
        /\ gDigest = LayoutAbove(gData, 0).root
        /\ ~HoldsDigest(gTree, gDigest)

\* a three-level tree, built in several calls into a buffer of other bytes,
\* whose first region ends with padding
C22_Witness ==
    /\ pc = "final"
    /\ call.op = "CreateFinal" /\ call.rc = NO_ERROR
    /\ feed.calls >= 2
    /\ Len(gData) > kNodeSize * kDigestsPerNode
    /\ NodesOf(Len(gData)) * kLength < NextAligned(Len(gData))
    /\ gTree[NextAligned(Len(gData))] = ZeroByte
    /\ FreshTree[NextAligned(Len(gData))] # ZeroByte

\* Verify(gData, data_len, gTree, tree_length, 0, data_len, root) was called
\* on built data and root with one byte of tree[0, tree_length) altered
FullRangeTreeAltered ==
    /\ Verified /\ tamper.kind = "tree" /\ tamper.idx < TreeLen
    /\ call.offset = 0 /\ call.length = Len(gData)
    /\ call.tree_len = TreeLen

\* C23: after Create, with bytes of tree[0, tree_length) altered, Verify
\* over the full range returns IoDataIntegrity when tree_length > kNodeSize
\* and Ok when tree_length <= kNodeSize.
C23_FullRangeTreeAltered ==
    FullRangeTreeAltered =>
        call.rc = IF TreeLen > kNodeSize THEN ERR_IO_DATA_INTEGRITY
                  ELSE NO_ERROR

\* C24: every node the verifier hashes, in VerifyLevel and in VerifyRoot, it
\* hashes from the locality tag, the length tag and the bytes the builder
\* hashed for that node; the hash being free of collisions, the digest it
\* computes for a node of the blob as built is the digest the builder
\* computed: the root for a blob of one node, the stored digest for each
\* data node of a longer one.
C24_SameNodeInputs ==
    (pc = "built" /\ tamper = NoTamper /\ rc = NO_ERROR) =>
        \A oob \in {ZeroByte, JunkByte} :
            /\ (Len(gData) <= kNodeSize) =>
                  RootDigest(gData, gTree, DATA, Len(gData), 0, oob).val = gDigest
            /\ (Len(gData) > kNodeSize) =>
                  \A i \in 0..(NodesOf(Len(gData)) - 1) :
                      VerifyLevel(gData, gTree, DATA, Len(gData), TREE,
                                  i * kNodeSize, 1, 0, FALSE, oob) = NO_ERROR

\* the lengths of the levels above level 0, added up as GetTreeLength does
RECURSIVE SumAbove(_, _)
SumAbove(chain, k) ==
    IF k > Len(chain) THEN 0 ELSE Add(chain[k].length, SumAbove(chain, k + 1))

\* C25: after a successful CreateInit(data_len, tree_len) level 0 has length
\* data_len, and every level has its index, offset 0 and, above level 0, the
\* length NextAligned of the length below, which is the region of the
\* digests of the nodes below and is smaller than the length below; the
\* chain ends at the first level of at most kNodeSize bytes, and its
\* regions add up to GetTreeLength(data_len).  CreateInit and GetTreeLength
\* return for every data_len.
C25_LevelChain ==
    (call.op = "CreateInit" /\ call.rc = NO_ERROR) =>
        /\ mt[1].length = call.length
        /\ \A k \in 1..Len(mt) :
              /\ mt[k].initialized
              /\ mt[k].level = k - 1
              /\ mt[k].offset = 0
              /\ (k = Len(mt)) <=> (mt[k].length <= kNodeSize)
              /\ (k < Len(mt)) =>
                    /\ mt[k + 1].length = NextAligned(mt[k].length)
                    /\ mt[k + 1].length < mt[k].length
                    /\ (mt[k].length <= SizeMod - kNodeSize) =>
                          mt[k + 1].length =
                              CeilTo(NodesOf(mt[k].length) * kLength, kNodeSize)
        /\ GetTreeLength(call.length) = SumAbove(mt, 2)

\* the chain of the longest blob whose regions fit the machine word
C25_Witness ==
    /\ call.op = "CreateInit" /\ call.rc = NO_ERROR
    /\ call.length = SizeMod - kNodeSize
    /\ Len(mt) > 3

\* the nodes below the top node of a blob of |n| bytes, all levels together
RECURSIVE NodesBelowTop(_)
NodesBelowTop(n) ==
    IF n <= kNodeSize THEN 0 ELSE NodesOf(n) + NodesBelowTop(NextAligned(n))

\* the value of the locality tag a hash was initialised with
LocalityOf(ctx) == ctx[1][3]

\* the locality tags of the digests stored in the tree and of the root
TagsBuilt ==
    {LocalityOf(gTree[j][2]) : j \in {i \in 1..TreeLen : gTree[i][1] = "h"}}
        \cup {LocalityOf(gDigest[1][2])}

\* C26: every hash of a node is initialised at an offset that is a multiple
\* of kNodeSize, in a level whose index is less than kNodeSize, so that
\* offset | level is offset + level, in the builder and, for every offset
\* Verify is asked for, in the verifier; the nodes of a built blob all have
\* different locality tags.
C26_LocalityTags ==
    /\ \A k \in 1..Len(mt) :
          /\ mt[k].level < kNodeSize
          /\ (mt[k].digest.ctx # <<>>) =>
                LET off == LocalityOf(mt[k].digest.ctx) - mt[k].level
                IN  /\ mt[k].digest.ctx[1] = LocalityTag(off + mt[k].level)
                    /\ off >= 0 /\ off % kNodeSize = 0
                    /\ BitOr(off, mt[k].level) = off + mt[k].level
          /\ \A offset \in VerifyOffsets :
                /\ AlignedOffset(offset) % kNodeSize = 0
                /\ BitOr(AlignedOffset(offset), mt[k].level) =
                       AlignedOffset(offset) + mt[k].level
    /\ (pc = "final" /\ Len(gData) > kNodeSize) =>
          Cardinality(TagsBuilt) = NodesBelowTop(Len(gData)) + 1

\* a three-level blob built: nodes at offset 0 of three levels and nodes at
\* other offsets
C26_Witness ==
    /\ pc = "final"
    /\ call.op = "CreateFinal" /\ call.rc = NO_ERROR
    /\ Len(mt) = 3
    /\ Cardinality(TagsBuilt) > 3

\* C27: a CreateUpdate on an open builder that returns an error returns
\* OutOfRange or InvalidArgs and has changed nothing: every level's offset
\* and digest state and the tree are as before and the builder is still
\* open; the build that goes on after it ends with the root of Create.
C27_ErrorBeforeMutation ==
    /\ [][(pc = "open" /\ call'.op = "CreateUpdate"
             /\ call'.rc \notin {NO_ERROR, PANIC, FAULT})
            => (call'.rc \in {ERR_OUT_OF_RANGE, ERR_INVALID_ARGS}
                /\ pc' = "open" /\ mt' = mt /\ gTree' = gTree
                /\ gDigest' = gDigest)]_vars
    /\ [](pc = "final" => gDigest = OneShot.root)

\* the nodes of level |k| of the builder that are complete: the offset has
\* reached their end or the end of the level
Completed(k) ==
    IF mt[k].offset = mt[k].length THEN NodesOf(mt[k].length)
    ELSE mt[k].offset \div kNodeSize

\* C28: between the calls made on a builder that CreateInit opened, every
\* level has 0 <= offset <= length, and a level under another one has fed it
\* kLength bytes for each of its complete nodes; no call before the
\* successful CreateFinal makes an offset smaller.
C28_Offsets ==
    /\ [](pc \in {"open", "overrun"} =>
            \A k \in 1..Len(mt) :
                /\ 0 <= mt[k].offset /\ mt[k].offset <= mt[k].length
                /\ (k < Len(mt)) => mt[k + 1].offset = kLength * Completed(k))
    /\ [][(pc = "open") =>
            \A k \in 1..Len(mt) : mt'[k].offset >= mt[k].offset]_vars

\* C29: whatever calls were made on the builder, the bytes of the tree
\* buffer at GetTreeLength(data_len) and after it are the ones the buffer
\* held before, and a blob of at most kNodeSize bytes leaves the whole
\* buffer as it was.
C29_WritesInsideTree ==
    \A j \in 1..Len(gTree) : j > TreeLen => gTree[j] = FreshTree[j]

\* the level-0 buffer with |byte| stored in the kNodeSize positions that
\* follow its data_len bytes
FollowedBy(data, byte) == data \o [i \in 1..kNodeSize |-> byte]

\* C30: Verify reads no byte of the data buffer at data_len or after it:
\* for every range inside the blob, what Verify answers is the same
\* whatever the buffer holds after its data_len bytes.
C30_NoReadPastData ==
    pc = "built" =>
        \A offset \in 0..Len(gData), length \in 0..Len(gData) :
            offset + length <= Len(gData) =>
                Verify(FollowedBy(gData, ZeroByte), DATA, Len(gData), gTree,
                       TREE, TreeLen, offset, length, gDigest, FALSE, ZeroByte)
                = Verify(FollowedBy(gData, JunkByte), DATA, Len(gData), gTree,
                         TREE, TreeLen, offset, length, gDigest, FALSE, ZeroByte)

\* the tree buffer with every byte at index |cap| and after it changed
ChangedFrom(tree, cap) ==
    [j \in 1..Len(tree) |-> IF j > cap THEN Flip(tree[j]) ELSE tree[j]]

\* C31: Verify reads no byte of the tree buffer at tree_len or after it:
\* for every capacity up to the tree's length and every range inside the
\* blob, what Verify answers is the same whatever the buffer holds from
\* index tree_len on.
C31_NoReadPastTree ==
    pc = "built" =>
        \A tree_len \in 0..TreeLen :
            \A offset \in 0..Len(gData), length \in 0..Len(gData) :
                offset + length <= Len(gData) =>
                    Verify(gData, DATA, Len(gData), gTree, TREE, tree_len,
                           offset, length, gDigest, FALSE, ZeroByte)
                    = Verify(gData, DATA, Len(gData),
                             ChangedFrom(gTree, tree_len), TREE, tree_len,
                             offset, length, gDigest, FALSE, ZeroByte)

\* the builder a new Tree object is after CreateInit for the blob in gData
\* and one CreateUpdate with its first |n| bytes
FreshAt(n) ==
    LET i == CreateInit(<<Tree0>>, 1, Len(gData), TreeLen, kNodeSize)
    IN  IF n = 0 THEN i.mt
        ELSE CreateUpdate(i.mt, FreshTree, 1, gData, DATA, n, TREE, FALSE).mt

\* what CreateInit and CreateUpdate keep of a level besides its digest_
Geometry(t) ==
    [initialized |-> t.initialized, level |-> t.level, offset |-> t.offset,
     length |-> t.length]

\* the levels of |m| that the build in progress uses are the levels of |f|,
\* with the same bytes absorbed into the digest_ of each once bytes were fed
SameBuilder(m, f) ==
    /\ Len(m) >= Len(f)
    /\ \A k \in 1..Len(f) :
          /\ Geometry(m[k]) = Geometry(f[k])
          /\ (f[1].offset > 0) => m[k].digest.ctx = f[k].digest.ctx

\* C32: CreateInit on a Tree object that an earlier build used, wherever
\* that build stopped, returns what it returns on a new object and leaves
\* the levels a new object would have; as long as the second build goes on
\* the builder is the one a new object fed the same bytes would be, and a
\* successful CreateFinal leaves the root and the tree of one-shot Create.
C32_InitAgain ==
    /\ [][(NoTamperYet /\ tamper' = Again) =>
            \E allocs \in {0, kNodeSize} :
                LET f == CreateInit(<<Tree0>>, 1, Len(gData'), call'.tree_len,
                                    allocs)
                IN  /\ rc' = f.rc
                    /\ Len(mt') >= Len(f.mt)
                    /\ \A k \in 1..Len(f.mt) :
                          Geometry(mt'[k]) = Geometry(f.mt[k])]_vars
    /\ []((tamper = Again /\ pc = "open") =>
            SameBuilder(mt, FreshAt(mt[1].offset)))
    /\ []((tamper = Again /\ pc = "final") =>
            /\ gDigest = OneShot.root
            /\ SubSeq(gTree, 1, TreeLen) = SubSeq(OneShot.tree, 1, TreeLen))

\* a one-node build completed on a Tree object that still points to the
\* levels of an earlier, larger build which had passed digests upwards
C32_Witness ==
    /\ tamper = Again /\ pc = "final" /\ rc = NO_ERROR
    /\ 0 < Len(gData) /\ Len(gData) <= kNodeSize
    /\ Len(mt) > 1 /\ mt[2].offset > 0

\* Verify was handed a data_len below the blob's that makes as many level-0
\* nodes, and a range that ends before the last of them
ShorterSameNodes ==
    /\ pc = "shorter"
    /\ NodesOf(call.data_len) = NodesOf(Len(gData))
    /\ call.offset + call.length <= (NodesOf(Len(gData)) - 1) * kNodeSize

=============================================================================
